---- MODULE Spec2Model ----
(***************************************************************************)
(* Model of the mirDIP adapter (src/mirDIP_adapter.py) as driven by        *)
(* src/create_mirDIP.py.                                                   *)
(*                                                                         *)
(* Three specifications share the variables:                                 *)
(*   Spec       the resolver: repeated runs of the script against one data *)
(*              file and one pickle cache on disk (__init__, read_data,    *)
(*              _translate_gene_symbols step by step, process death).      *)
(*   SpecEdges  the edge emitter: __init__/_set_types_and_fields,          *)
(*              get_edge_batches and get_edges over a loaded adapter.      *)
(*   SpecCalls  one adapter whose methods a caller invokes in any order.   *)
(***************************************************************************)
EXTENDS Integers, Sequences, FiniteSets, TLC

\* ------------------------------------------------------------------ bounds
\* longest data file (rows)
MaxRows == 3
\* largest batch size handed to get_edge_batches
MaxBatch == 3

\* n_rows of the test-mode read (20_000_000 in the source, scaled to the
\* length of the modelled files so that a test-mode table is a proper prefix)
TestModeRows == 2

\* ------------------------------------------- mirDIPAdapterMirnaGeneEdgeField
GENE_SYMBOL == 0
MICRORNA == 1
RANK == 2
SCORE == 3
SCORE_CLASS == 7
SOURCE == 4
ORIGINAL_SOURCE_GENE_SYMBOL == 5
ORIGINAL_SOURCE_MICRORNA == 6
\* GENE_UNIPROT_ID = auto(): last value + 1 (an alias of SCORE_CLASS) up to
\* Python 3.10, highest value + 1 from Python 3.11 on
AutoValues == {ORIGINAL_SOURCE_MICRORNA + 1, SCORE_CLASS + 1}

\* a row tuple is indexed from 0 in the source, from 1 here
Col(row, field) == row[field + 1]

\* ------------------------------------------------------------ input domains
\* rows of mirDIP_Bidirectional_search_v.5.txt, in README column order:
\* GENE_SYMBOL, MICRORNA, RANK, SCORE, SOURCE, GENE_SYMBOL_ORI, MICRORNA_ORI,
\* SCORE_CLASS
RowSet ==
    { <<"A", "m1", 1, 90, "db1", "A", "m1", "high">>,
      <<"A", "m1", 1, 90, "db1", "A0", "m1", "high">>,
      <<"B", "m2", 3, 10, "db2", "B", "m2x", "low">> }

Tables == UNION { [1..n -> RowSet] : n \in 0..MaxRows }

\* names the mapping authority can be asked about, identifiers it can return
Names == {"A", "A0", "B"}
IdSets == { {}, {"P1"}, {"P1", "P2"} }
\* orders in which an interpreter can lay out the identifiers in a set: str
\* hashes are seeded per process
HashOrders == { <<"P1", "P2">>, <<"P2", "P1">> }
Authorities == [Names -> IdSets]

EmptyMap == [s \in {} |-> {}]

VARIABLES
    file,                  \* rows of the data file on disk
    authority,             \* pypath's genesymbol -> uniprot table
    cache_s2u,             \* data/symbol_to_uniprot.pickle
    cache_unm,             \* data/unmapped_gene_symbols.pickle
    pc,                    \* position of the running script
    test_mode,             \* self.test_mode
    clear_cache,           \* self.clear_cache
    attrs,                 \* instance attributes assigned so far
    data,                  \* self.data
    symbol_to_uniprot,     \* self.symbol_to_uniprot
    unmapped_gene_symbols, \* self.unmapped_gene_symbols
    gene_symbols,          \* symbols the for loop has still to visit
    queries,               \* map_name calls made for each symbol in this pass
    exc,                   \* exception that ended the run, if any
    cache_existed,         \* os.path.exists(...) as seen on entry
    auto_value,            \* value auto() gave GENE_UNIPROT_ID
    passed_fields,         \* edge_fields argument of the constructor
    node_types,            \* self.node_types
    edge_types,            \* self.edge_types
    edge_fields,           \* self.edge_fields
    batch_size,            \* argument of get_edge_batches
    batches,               \* slices the driver loop has still to pull
    nbatches,              \* slices pulled so far
    fed,                   \* rows of the slices pulled so far, in order
    emitted,               \* edges written so far, with their row number
    hash_order,            \* set layout the running interpreter's seed gives
    again,                 \* edges written by a second run on the same input
    nodes,                 \* nodes the last get_nodes call yielded
    call_error,            \* exception of the last get_* call, if any
    emit_states            \* adapter states in which a protein node or an
                           \* edge was yielded

diskVars == <<file, authority, auto_value, hash_order>>
cacheVars == <<cache_s2u, cache_unm>>
argVars == <<test_mode, clear_cache, passed_fields, node_types, edge_types,
             edge_fields>>
tableVars == <<symbol_to_uniprot, unmapped_gene_symbols>>
passVars == <<gene_symbols, queries>>
callVars == <<nodes, call_error, emit_states>>
emitVars == <<batch_size, batches, nbatches, fed, emitted, again, callVars>>

vars == <<file, authority, auto_value, cache_s2u, cache_unm, pc, test_mode,
          clear_cache, passed_fields, node_types, edge_types, edge_fields,
          attrs, data, symbol_to_uniprot, unmapped_gene_symbols,
          gene_symbols, queries, exc, cache_existed, batch_size, batches,
          nbatches, fed, emitted, hash_order, again, nodes, call_error,
          emit_states>>

\* a pickle file: absent, opened for writing and not yet dumped (truncated),
\* or holding the dumped object
NoFile == [state |-> "absent", s2u |-> EmptyMap, unm |-> {}]
Truncated == [state |-> "truncated", s2u |-> EmptyMap, unm |-> {}]
PickledMap(m) == [state |-> "ok", s2u |-> m, unm |-> {}]
PickledSet(u) == [state |-> "ok", s2u |-> EmptyMap, unm |-> u]

\* ------------------------------------------------------------------ helpers
Prefix(seq, n) == SubSeq(seq, 1, IF Len(seq) < n THEN Len(seq) ELSE n)

\* pl.read_csv(..., n_rows=20_000_000) in test mode, the whole file otherwise
ReadCsv(f, tm) == IF tm THEN Prefix(f, TestModeRows) ELSE f

\* set(self.data.get_column("GENE_SYMBOL").to_list())
GeneSymbols(tbl) == { Col(tbl[i], GENE_SYMBOL) : i \in DOMAIN tbl }

\* self.data.filter(pl.col("GENE_SYMBOL") == s)
\*     .get_column("GENE_SYMBOL_ORI").to_list()[0]
OriginalGeneSymbol(tbl, s) ==
    LET hits == { i \in DOMAIN tbl : Col(tbl[i], GENE_SYMBOL) = s }
        first == CHOOSE i \in hits : \A j \in hits : i <= j
    IN Col(tbl[first], ORIGINAL_SOURCE_GENE_SYMBOL)

\* mapping.map_name(name, "genesymbol", "uniprot", 9606): the authority's
\* answer, or an exception when the call fails
MapName(auth, name, fails) ==
    IF fails THEN [raised |-> TRUE, ids |-> {}]
    ELSE [raised |-> FALSE, ids |-> auth[name]]

\* body of the for loop for one symbol: what it records and how many
\* map_name calls it makes
ResolveOneNoFallback(tbl, auth, s, f1, f2) ==
    LET r1 == MapName(auth, s, f1)
    IN IF r1.raised
       THEN [raised |-> TRUE, mapped |-> FALSE, ids |-> {}, nq |-> 1]
       ELSE [raised |-> FALSE, mapped |-> r1.ids # {}, ids |-> r1.ids, nq |-> 1]

ResolveOneAlwaysRetry(tbl, auth, s, f1, f2) ==
    LET r1 == MapName(auth, s, f1)
    IN IF r1.raised
       THEN [raised |-> TRUE, mapped |-> FALSE, ids |-> {}, nq |-> 1]
       ELSE IF r1.ids # {}
       THEN [raised |-> FALSE, mapped |-> TRUE, ids |-> r1.ids, nq |-> 1]
       ELSE LET r2 == MapName(auth, OriginalGeneSymbol(tbl, s), f2)
            IN IF r2.raised
               THEN [raised |-> TRUE, mapped |-> FALSE, ids |-> {}, nq |-> 2]
               ELSE [raised |-> FALSE, mapped |-> r2.ids # {},
                     ids |-> r2.ids, nq |-> 2]

ResolveOne(tbl, auth, s, f1, f2) ==
    LET r1 == MapName(auth, s, f1)
    IN IF r1.raised
       THEN [raised |-> TRUE, mapped |-> FALSE, ids |-> {}, nq |-> 1]
       ELSE IF r1.ids # {}
       THEN [raised |-> FALSE, mapped |-> TRUE, ids |-> r1.ids, nq |-> 1]
       ELSE LET o == OriginalGeneSymbol(tbl, s)
            IN IF o = s
               THEN [raised |-> FALSE, mapped |-> FALSE, ids |-> {}, nq |-> 1]
               ELSE LET r2 == MapName(auth, o, f2)
                    IN IF r2.raised
                       THEN [raised |-> TRUE, mapped |-> FALSE, ids |-> {},
                             nq |-> 2]
                       ELSE [raised |-> FALSE, mapped |-> r2.ids # {},
                             ids |-> r2.ids, nq |-> 2]

\* os.path.exists("data/symbol_to_uniprot.pickle") and not self.clear_cache
UseCacheIgnoringClear(exists, cc) == exists

UseCache(exists, cc) == exists /\ ~cc

NoQueries == [s \in Names |-> 0]


\* --------------------------------------------------- type / field selection
AllNodeTypes == {"PROTEIN", "MICRORNA"}
AllEdgeTypes == {"MIRNA_PROTEIN_INTERACTION"}
\* [field for field in mirDIPAdapterMirnaGeneEdgeField]
AllEdgeFields(auto) ==
    {GENE_SYMBOL, MICRORNA, RANK, SCORE, SCORE_CLASS, SOURCE,
     ORIGINAL_SOURCE_GENE_SYMBOL, ORIGINAL_SOURCE_MICRORNA, auto}

\* an optional list argument: None, or a list of enum members
NoneArg == [none |-> TRUE, items |-> {}]
Given(S) == [none |-> FALSE, items |-> S]

\* `if edge_fields:` -- None and the empty list are both false
Truthy(arg) == ~arg.none /\ arg.items # {}

\* one branch pair of _set_types_and_fields
OrAll(arg, all) == IF Truthy(arg) THEN arg.items ELSE all

\* arguments create_mirDIP.py passes
ScriptNodeTypes == Given({"PROTEIN", "MICRORNA"})
ScriptEdgeTypes == Given({"MIRNA_PROTEIN_INTERACTION"})

\* ------------------------------------------------------- resolver: actions
Stopped == {"idle", "done", "raised", "killed"}

\* mirDIPAdapter.__init__
AdapterInit(nt, et, ef, tm, cc) ==
    /\ node_types' = OrAll(nt, AllNodeTypes)
    /\ edge_types' = OrAll(et, AllEdgeTypes)
    /\ edge_fields' = OrAll(ef, AllEdgeFields(auto_value))
    /\ passed_fields' = ef
    /\ test_mode' = tm
    /\ clear_cache' = cc
    /\ attrs' = {}
    /\ data' = <<>>
    /\ symbol_to_uniprot' = EmptyMap
    /\ unmapped_gene_symbols' = {}
    /\ gene_symbols' = {}
    /\ queries' = NoQueries
    /\ exc' = "none"
    /\ cache_existed' = FALSE

\* a new run of create_mirDIP.py: the adapter is constructed
Construct ==
    /\ pc \in Stopped
    /\ \E tm \in BOOLEAN, cc \in BOOLEAN :
         AdapterInit(ScriptNodeTypes, ScriptEdgeTypes, NoneArg, tm, cc)
    /\ pc' = "constructed"
    /\ UNCHANGED <<diskVars, cacheVars, emitVars>>

\* read_data up to the call of _translate_gene_symbols
ReadData ==
    /\ pc = "constructed"
    /\ data' = ReadCsv(file, test_mode)
    /\ attrs' = attrs \cup {"data"}
    /\ pc' = "translate"
    /\ UNCHANGED <<diskVars, cacheVars, argVars, tableVars, passVars, exc,
                   cache_existed, emitVars>>

\* _translate_gene_symbols, cache branch: both pickles load; read_data returns
LoadCache ==
    /\ pc = "translate"
    /\ UseCache(cache_s2u.state # "absent", clear_cache)
    /\ cache_s2u.state = "ok"
    /\ cache_unm.state = "ok"
    /\ symbol_to_uniprot' = cache_s2u.s2u
    /\ unmapped_gene_symbols' = cache_unm.unm
    /\ attrs' = attrs \cup {"symbol_to_uniprot", "unmapped_gene_symbols"}
    /\ cache_existed' = (cache_s2u.state # "absent")
    /\ pc' = "done"
    /\ UNCHANGED <<diskVars, cacheVars, argVars, data, passVars, exc,
                   emitVars>>

\* _translate_gene_symbols, cache branch: pickle.load or open raises
LoadCacheRaises ==
    /\ pc = "translate"
    /\ UseCache(cache_s2u.state # "absent", clear_cache)
    /\ \/ /\ cache_s2u.state = "truncated"
          /\ UNCHANGED <<symbol_to_uniprot, attrs>>
       \/ /\ cache_s2u.state = "ok"
          /\ cache_unm.state # "ok"
          /\ symbol_to_uniprot' = cache_s2u.s2u
          /\ attrs' = attrs \cup {"symbol_to_uniprot"}
    /\ cache_existed' = (cache_s2u.state # "absent")
    /\ exc' = "cache"
    /\ pc' = "raised"
    /\ UNCHANGED <<diskVars, cacheVars, argVars, data, unmapped_gene_symbols,
                   passVars, emitVars>>

\* _translate_gene_symbols, pypath branch up to the for loop
BeginResolution ==
    /\ pc = "translate"
    /\ ~UseCache(cache_s2u.state # "absent", clear_cache)
    /\ unmapped_gene_symbols' = {}
    /\ symbol_to_uniprot' = EmptyMap
    /\ attrs' = attrs \cup {"symbol_to_uniprot", "unmapped_gene_symbols"}
    /\ gene_symbols' = GeneSymbols(data)
    /\ cache_existed' = (cache_s2u.state # "absent")
    /\ pc' = "loop"
    /\ UNCHANGED <<diskVars, cacheVars, argVars, data, queries, exc,
                   emitVars>>

\* one iteration of `for gene_symbol in tqdm(gene_symbols)`; a set is
\* iterated in no particular order
ResolveSymbol ==
    /\ pc = "loop"
    /\ \E s \in gene_symbols, f1 \in BOOLEAN, f2 \in BOOLEAN :
         LET r == ResolveOne(data, authority, s, f1, f2)
         IN /\ queries' = [queries EXCEPT ![s] = r.nq]
            /\ gene_symbols' = gene_symbols \ {s}
            /\ IF r.raised
               THEN /\ exc' = "query"
                    /\ pc' = "raised"
                    /\ UNCHANGED tableVars
               ELSE /\ UNCHANGED <<exc, pc>>
                    /\ IF r.mapped
                       THEN /\ symbol_to_uniprot' =
                                 [t \in DOMAIN symbol_to_uniprot \cup {s} |->
                                    IF t = s THEN r.ids
                                    ELSE symbol_to_uniprot[t]]
                            /\ UNCHANGED unmapped_gene_symbols
                       ELSE /\ unmapped_gene_symbols' =
                                 unmapped_gene_symbols \cup {s}
                            /\ UNCHANGED symbol_to_uniprot
    /\ UNCHANGED <<diskVars, cacheVars, argVars, attrs, data, cache_existed,
                   emitVars>>

\* open("data/symbol_to_uniprot.pickle", "wb") creates or truncates the file
OpenSymbolPickle ==
    /\ pc = "loop"
    /\ gene_symbols = {}
    /\ cache_s2u' = Truncated
    /\ pc' = "dump_s2u"
    /\ UNCHANGED <<diskVars, cache_unm, argVars, attrs, data, tableVars,
                   passVars, exc, cache_existed, emitVars>>

\* pickle.dump(self.symbol_to_uniprot, f) and the close of the with block
DumpSymbolPickle ==
    /\ pc = "dump_s2u"
    /\ cache_s2u' = PickledMap(symbol_to_uniprot)
    /\ pc' = "open_unm"
    /\ UNCHANGED <<diskVars, cache_unm, argVars, attrs, data, tableVars,
                   passVars, exc, cache_existed, emitVars>>

\* open("data/unmapped_gene_symbols.pickle", "wb")
OpenUnmappedPickle ==
    /\ pc = "open_unm"
    /\ cache_unm' = Truncated
    /\ pc' = "dump_unm"
    /\ UNCHANGED <<diskVars, cache_s2u, argVars, attrs, data, tableVars,
                   passVars, exc, cache_existed, emitVars>>

\* pickle.dump(self.unmapped_gene_symbols, f); _translate_gene_symbols and
\* read_data return
DumpUnmappedPickle ==
    /\ pc = "dump_unm"
    /\ cache_unm' = PickledSet(unmapped_gene_symbols)
    /\ pc' = "done"
    /\ UNCHANGED <<diskVars, cache_s2u, argVars, attrs, data, tableVars,
                   passVars, exc, cache_existed, emitVars>>

\* the process dies (signal, power loss, full disk) inside read_data; what is
\* on disk stays as it is
Kill ==
    /\ pc \in {"constructed", "translate", "loop", "dump_s2u", "open_unm",
               "dump_unm"}
    /\ pc' = "killed"
    /\ UNCHANGED <<diskVars, cacheVars, argVars, attrs, data, tableVars,
                   passVars, exc, cache_existed, emitVars>>

NoEmission ==
    /\ batch_size = 1
    /\ batches = <<>>
    /\ nbatches = 0
    /\ fed = <<>>
    /\ emitted = <<>>
    /\ again = <<>>
    /\ nodes = <<>>
    /\ call_error = "none"
    /\ emit_states = {}

Init ==
    /\ file \in Tables
    /\ authority \in Authorities
    /\ auto_value = SCORE_CLASS + 1
    /\ hash_order = <<"P1", "P2">>
    /\ cache_s2u = NoFile
    /\ cache_unm = NoFile
    /\ pc = "idle"
    /\ test_mode = FALSE
    /\ clear_cache = FALSE
    /\ passed_fields = NoneArg
    /\ node_types = AllNodeTypes
    /\ edge_types = AllEdgeTypes
    /\ edge_fields = AllEdgeFields(auto_value)
    /\ attrs = {}
    /\ data = <<>>
    /\ symbol_to_uniprot = EmptyMap
    /\ unmapped_gene_symbols = {}
    /\ gene_symbols = {}
    /\ queries = NoQueries
    /\ exc = "none"
    /\ cache_existed = FALSE
    /\ NoEmission

Next ==
    \/ Construct
    \/ ReadData
    \/ LoadCache
    \/ LoadCacheRaises
    \/ BeginResolution
    \/ ResolveSymbol
    \/ OpenSymbolPickle
    \/ DumpSymbolPickle
    \/ OpenUnmappedPickle
    \/ DumpUnmappedPickle
    \/ Kill

Spec == Init /\ [][Next]_vars


\* ------------------------------------------------------------ edge emitter
\* self.data.iter_slices(n_rows=n): contiguous slices of n rows, the last one
\* possibly shorter, none when the table is empty
IterSlicesDropTail(tbl, n) ==
    [k \in 1..(Len(tbl) \div n) |-> SubSeq(tbl, (k - 1) * n + 1, k * n)]

IterSlices(tbl, n) ==
    [k \in 1..((Len(tbl) + n - 1) \div n) |->
        SubSeq(tbl, (k - 1) * n + 1,
               IF k * n < Len(tbl) THEN k * n ELSE Len(tbl))]

\* str(row): the reprs of the fields of the tuple, strings in quotes
StrOfRowEndpointsOnly(row) ==
    "('" \o Col(row, MICRORNA) \o "', '" \o Col(row, GENE_SYMBOL) \o "')"

StrOfRow(row) ==
    "('" \o row[1] \o "', '" \o row[2] \o "', " \o ToString(row[3]) \o ", "
         \o ToString(row[4]) \o ", '" \o row[5] \o "', '" \o row[6]
         \o "', '" \o row[7] \o "', '" \o row[8] \o "')"

\* hashlib.md5(str(row).encode()).hexdigest(): a digest of the text of the
\* whole row, taken as collision free
Md5OfRow(row) == <<"md5", StrOfRow(row)>>

\* the props dict of one row
EdgePropsAlwaysScore(row, ef) ==
    LET keys == {"source", "version", "licence", "score"}
                \cup (IF RANK \in ef THEN {"rank"} ELSE {})
                \cup (IF SCORE_CLASS \in ef THEN {"score_class"} ELSE {})
    IN [k \in keys |->
          CASE k = "source" -> Col(row, SOURCE)
            [] k = "version" -> "mirDIP" \o " version " \o "5.2"
            [] k = "licence" -> "free to use, copy, and modify for academic and non-commercial purposes"
            [] k = "rank" -> Col(row, RANK)
            [] k = "score" -> Col(row, SCORE)
            [] k = "score_class" -> Col(row, SCORE_CLASS)]

EdgeProps(row, ef) ==
    LET keys == {"source", "version", "licence"}
                \cup (IF RANK \in ef THEN {"rank"} ELSE {})
                \cup (IF SCORE \in ef THEN {"score"} ELSE {})
                \cup (IF SCORE_CLASS \in ef THEN {"score_class"} ELSE {})
    IN [k \in keys |->
          CASE k = "source" -> Col(row, SOURCE)
            [] k = "version" -> "mirDIP" \o " version " \o "5.2"
            [] k = "licence" -> "free to use, copy, and modify for academic and non-commercial purposes"
            [] k = "rank" -> Col(row, RANK)
            [] k = "score" -> Col(row, SCORE)
            [] k = "score_class" -> Col(row, SCORE_CLASS)]

\* `for uniprot in uniprots`: a set is visited in the order the
\* interpreter's hash seed lays it out, each member once
IterSet(S) == SelectSeq(hash_order, LAMBDA x : x \in S)

\* the edges get_edges yields for one row
RowEdgesFirstOnly(row, s2u, ef) ==
    LET gene_symbol == Col(row, GENE_SYMBOL)
        uniprots == IF gene_symbol \in DOMAIN s2u
                    THEN IterSet(s2u[gene_symbol]) ELSE <<>>
    IN [k \in 1..(IF Len(uniprots) > 0 THEN 1 ELSE 0) |->
          <<Md5OfRow(row), Col(row, MICRORNA), "uniprot:" \o uniprots[k],
            "mirna_protein_interaction_" \o Col(row, SCORE_CLASS),
            EdgeProps(row, ef)>>]

RowEdges(row, s2u, ef) ==
    LET gene_symbol == Col(row, GENE_SYMBOL)
        mir_name == Col(row, MICRORNA)
        label == "mirna_protein_interaction_" \o Col(row, SCORE_CLASS)
        props == EdgeProps(row, ef)
        uniprots == IF gene_symbol \in DOMAIN s2u
                    THEN IterSet(s2u[gene_symbol]) ELSE <<>>
        _id == Md5OfRow(row)
    IN [k \in 1..Len(uniprots) |->
          <<_id, mir_name, "uniprot:" \o uniprots[k], label, props>>]

\* everything get_edges(batch) yields, each edge with the number its row has
\* in the whole table (the batch starts after `offset` rows)
RECURSIVE GetEdgesOf(_, _, _, _)
GetEdgesOf(batch, offset, s2u, ef) ==
    IF batch = <<>> THEN <<>>
    ELSE LET n == Len(batch)
             last == RowEdges(batch[n], s2u, ef)
         IN GetEdgesOf(SubSeq(batch, 1, n - 1), offset, s2u, ef)
            \o [k \in 1..Len(last) |-> [row |-> offset + n, edge |-> last[k]]]

\* edge_fields arguments tried: None, and the lists over four of the fields
EdgeFieldArgs(auto) ==
    {NoneArg} \cup { Given(S) : S \in SUBSET {RANK, SCORE, SCORE_CLASS, auto} }

\* tables a completed pass over the file (or a prefix of it) can have pickled
ResolutionTables(tbl) ==
    UNION { [D -> IdSets \ {{}}] : D \in SUBSET GeneSymbols(tbl) }

\* the adapter is constructed with a caller-chosen edge_fields
ConstructFields ==
    /\ pc = "idle"
    /\ \E ef \in EdgeFieldArgs(auto_value) :
         AdapterInit(ScriptNodeTypes, ScriptEdgeTypes, ef, FALSE, FALSE)
    /\ pc' = "constructed"
    /\ UNCHANGED <<diskVars, cacheVars, emitVars>>

\* batches = adapter.get_edge_batches(batch_size)
GetEdgeBatches ==
    /\ pc = "done"
    /\ \E b \in 1..MaxBatch :
         /\ batch_size' = b
         /\ batches' = IterSlices(data, b)
    /\ nbatches' = 0
    /\ fed' = <<>>
    /\ emitted' = <<>>
    /\ pc' = "edges"
    /\ UNCHANGED <<again, callVars>>
    /\ UNCHANGED <<diskVars, cacheVars, argVars, attrs, data, tableVars,
                   passVars, exc, cache_existed>>

\* one turn of `for batch in tqdm(batches)`: the driver writes every edge
\* get_edges(batch) yields
GetEdges ==
    /\ pc = "edges"
    /\ batches # <<>>
    /\ emitted' = emitted \o GetEdgesOf(Head(batches), Len(fed),
                                        symbol_to_uniprot, edge_fields)
    /\ fed' = fed \o Head(batches)
    /\ nbatches' = nbatches + 1
    /\ batches' = Tail(batches)
    /\ UNCHANGED <<diskVars, cacheVars, argVars, attrs, data, tableVars,
                   passVars, exc, cache_existed, batch_size, pc, again,
                   callVars>>

\* create_mirDIP.py is run once more on the same file, pickles and arguments:
\* a new interpreter, the same adapter state, the batch loop about to start
Rerun ==
    /\ pc = "edges"
    /\ batches = <<>>
    /\ hash_order' \in HashOrders
    /\ batches' = IterSlices(data, batch_size)
    /\ nbatches' = 0
    /\ again' = <<>>
    /\ pc' = "rerun"
    /\ UNCHANGED <<file, authority, auto_value, cacheVars, argVars, attrs,
                   data, tableVars, passVars, exc, cache_existed, batch_size,
                   fed, emitted, callVars>>

\* one turn of the batch loop of the second run
GetEdgesAgain ==
    /\ pc = "rerun"
    /\ batches # <<>>
    /\ again' = again \o GetEdgesOf(Head(batches), nbatches * batch_size,
                                    symbol_to_uniprot, edge_fields)
    /\ nbatches' = nbatches + 1
    /\ batches' = Tail(batches)
    /\ UNCHANGED <<diskVars, cacheVars, argVars, attrs, data, tableVars,
                   passVars, exc, cache_existed, batch_size, pc, fed,
                   emitted, callVars>>

InitEdges ==
    /\ file \in Tables
    /\ authority = [n \in Names |-> {}]
    /\ auto_value \in AutoValues
    /\ hash_order \in HashOrders
    /\ \E m \in ResolutionTables(file) :
         /\ cache_s2u = PickledMap(m)
         /\ cache_unm = PickledSet(GeneSymbols(file) \ DOMAIN m)
    /\ pc = "idle"
    /\ test_mode = FALSE
    /\ clear_cache = FALSE
    /\ passed_fields = NoneArg
    /\ node_types = AllNodeTypes
    /\ edge_types = AllEdgeTypes
    /\ edge_fields = AllEdgeFields(auto_value)
    /\ attrs = {}
    /\ data = <<>>
    /\ symbol_to_uniprot = EmptyMap
    /\ unmapped_gene_symbols = {}
    /\ gene_symbols = {}
    /\ queries = NoQueries
    /\ exc = "none"
    /\ cache_existed = FALSE
    /\ NoEmission

NextEdges ==
    \/ ConstructFields
    \/ ReadData
    \/ LoadCache
    \/ GetEdgeBatches
    \/ GetEdges
    \/ Rerun
    \/ GetEdgesAgain

SpecEdges == InitEdges /\ [][NextEdges]_vars

\* ------------------------------------------------- calls in any order
\* the order in which a dict or a set of symbols is walked; the properties
\* below do not depend on it
RECURSIVE WalkOrder(_)
WalkOrder(S) ==
    IF S = {} THEN <<>>
    ELSE LET x == CHOOSE y \in S : TRUE IN <<x>> \o WalkOrder(S \ {x})

RECURSIVE Concat(_)
Concat(seqs) == IF seqs = <<>> THEN <<>> ELSE Head(seqs) \o Concat(Tail(seqs))

\* the protein nodes of get_nodes: one per identifier of every symbol
ProteinNodes(s2u) ==
    LET syms == WalkOrder(DOMAIN s2u)
    IN Concat([i \in 1..Len(syms) |->
         LET ids == IterSet(s2u[syms[i]])
         IN [k \in 1..Len(ids) |->
               <<"uniprot:" \o ids[k], "protein",
                 [gene_symbol |-> syms[i], source |-> "mirDIP",
                  version |-> "5.2",
                  licence |-> "free to use, copy, and modify for academic and non-commercial purposes"]>>]])

\* the miRNA nodes of get_nodes: one per distinct value of the MICRORNA column
MirnaNodes(tbl) ==
    LET mirs == WalkOrder({ Col(tbl[i], MICRORNA) : i \in DOMAIN tbl })
    IN [k \in 1..Len(mirs) |->
          <<mirs[k], "mirna",
            [source |-> "mirDIP", version |-> "5.2",
             licence |-> "free to use, copy, and modify for academic and non-commercial purposes"]>>]

\* get_nodes pulled to its end: what it yields before it returns or raises.
\* An attribute that was never assigned raises AttributeError where it is read.
GetNodesOutcome(have, nt, s2u, tbl) ==
    LET wantP == "PROTEIN" \in nt
        wantM == "MICRORNA" \in nt
        proteins == IF wantP /\ "symbol_to_uniprot" \in have
                    THEN ProteinNodes(s2u) ELSE <<>>
        failsP == wantP /\ ~({"symbol_to_uniprot", "unmapped_gene_symbols"}
                              \subseteq have)
        failsM == wantM /\ "data" \notin have
    IN [proteins |-> proteins,
        nodes |-> IF ~failsP /\ wantM /\ ~failsM
                  THEN proteins \o MirnaNodes(tbl) ELSE proteins,
        error |-> IF failsP \/ failsM THEN "AttributeError" ELSE "none"]

\* node_types arguments tried
NodeTypeArgs == {NoneArg, Given({"PROTEIN"}), Given({"MICRORNA"})}

\* states in which no call is running and the caller can make the next one;
\* read_data is called at most once on an adapter, the getters at any time
AtRest == {"constructed", "done", "raised"}

\* the caller constructs the adapter
ConstructCaller ==
    /\ pc = "idle"
    /\ \E cc \in BOOLEAN, nt \in NodeTypeArgs :
         AdapterInit(nt, ScriptEdgeTypes, NoneArg, FALSE, cc)
    /\ pc' = "constructed"
    /\ UNCHANGED <<diskVars, cacheVars, emitVars>>

\* the caller pulls get_nodes() to its end
GetNodes ==
    /\ pc \in AtRest
    /\ LET out == GetNodesOutcome(attrs, node_types, symbol_to_uniprot, data)
       IN /\ nodes' = out.nodes
          /\ call_error' = out.error
          /\ emit_states' = IF out.proteins # <<>>
                            THEN emit_states \cup {pc} ELSE emit_states
    /\ UNCHANGED <<diskVars, cacheVars, argVars, attrs, data, tableVars,
                   passVars, exc, cache_existed, pc, batch_size, batches,
                   nbatches, fed, emitted, again>>

\* the caller calls get_edge_batches(MaxBatch)
CallGetEdgeBatches ==
    /\ pc \in AtRest
    /\ IF "data" \in attrs
       THEN /\ batch_size' = MaxBatch
            /\ batches' = IterSlices(data, MaxBatch)
            /\ nbatches' = 0
            /\ fed' = <<>>
            /\ emitted' = <<>>
            /\ call_error' = "none"
       ELSE /\ call_error' = "AttributeError"
            /\ UNCHANGED <<batch_size, batches, nbatches, fed, emitted>>
    /\ UNCHANGED <<diskVars, cacheVars, argVars, attrs, data, tableVars,
                   passVars, exc, cache_existed, pc, again, nodes,
                   emit_states>>

\* the caller pulls get_edges(batch) to its end for the next slice
CallGetEdges ==
    /\ pc \in AtRest
    /\ batches # <<>>
    /\ IF "symbol_to_uniprot" \in attrs
       THEN LET out == GetEdgesOf(Head(batches), Len(fed), symbol_to_uniprot,
                                  edge_fields)
            IN /\ emitted' = emitted \o out
               /\ call_error' = "none"
               /\ emit_states' = IF out # <<>>
                                 THEN emit_states \cup {pc} ELSE emit_states
       ELSE /\ call_error' = "AttributeError"
            /\ UNCHANGED <<emitted, emit_states>>
    /\ fed' = fed \o Head(batches)
    /\ nbatches' = nbatches + 1
    /\ batches' = Tail(batches)
    /\ UNCHANGED <<diskVars, cacheVars, argVars, attrs, data, tableVars,
                   passVars, exc, cache_existed, pc, batch_size, again,
                   nodes>>

\* the pickles a first run leaves: none, or, when it was killed between
\* open and dump, a truncated symbol_to_uniprot.pickle (a run that finds both
\* pickles whole is where SpecEdges starts)
InitCalls ==
    /\ file \in Tables
    /\ authority \in Authorities
    /\ auto_value = SCORE_CLASS + 1
    /\ hash_order = <<"P1", "P2">>
    /\ cache_s2u \in {NoFile, Truncated}
    /\ cache_unm = NoFile
    /\ pc = "idle"
    /\ test_mode = FALSE
    /\ clear_cache = FALSE
    /\ passed_fields = NoneArg
    /\ node_types = AllNodeTypes
    /\ edge_types = AllEdgeTypes
    /\ edge_fields = AllEdgeFields(auto_value)
    /\ attrs = {}
    /\ data = <<>>
    /\ symbol_to_uniprot = EmptyMap
    /\ unmapped_gene_symbols = {}
    /\ gene_symbols = {}
    /\ queries = NoQueries
    /\ exc = "none"
    /\ cache_existed = FALSE
    /\ NoEmission

NextCalls ==
    \/ ConstructCaller
    \/ ReadData
    \/ LoadCacheRaises
    \/ BeginResolution
    \/ ResolveSymbol
    \/ OpenSymbolPickle
    \/ DumpSymbolPickle
    \/ OpenUnmappedPickle
    \/ DumpUnmappedPickle
    \/ GetNodes
    \/ CallGetEdgeBatches
    \/ CallGetEdges

SpecCalls == InitCalls /\ [][NextCalls]_vars

\* ------------------------------------------------------ resolver: properties
\* the symbol is a key of the table with at least one identifier
Mapped(s) == s \in DOMAIN symbol_to_uniprot /\ symbol_to_uniprot[s] # {}

\* the for loop has handled the symbol in this pass and no query raised
Handled(s) == queries[s] > 0 /\ exc = "none"

\* C1: once read_data has returned, every gene symbol of the loaded table is
\* in exactly one of symbol_to_uniprot (with an identifier) and
\* unmapped_gene_symbols, whichever path filled them and whatever ran before.
C1_Disjointness ==
    pc = "done" =>
        \A s \in GeneSymbols(data) :
            \/ Mapped(s) /\ s \notin unmapped_gene_symbols
            \/ ~Mapped(s) /\ s \in unmapped_gene_symbols

\* C2: in every state the cache on disk holds both pickles, whole, or neither.
C2_CacheAllOrNothing ==
    \/ cache_s2u.state = "absent" /\ cache_unm.state = "absent"
    \/ cache_s2u.state = "ok" /\ cache_unm.state = "ok"

\* C3: a map_name call that raises never ends _translate_gene_symbols.
C3_QueryFailureNotFatal == ~(pc = "raised" /\ exc = "query")

\* C4: a pickle that exists but cannot be read (or whose companion is missing)
\* never ends _translate_gene_symbols with an exception.
C4_UnreadableCacheRecovered == ~(pc = "raised" /\ exc = "cache")

\* C5: when read_data returns, either the pickle existed and clear_cache was
\* false, and then the tables are the pickled ones and no query was made; or
\* every gene symbol of the table was queried and both pickles hold the new
\* tables.
C5_CacheHitOrFullPass ==
    pc = "done" =>
        IF cache_existed /\ ~clear_cache
        THEN /\ symbol_to_uniprot = cache_s2u.s2u
             /\ unmapped_gene_symbols = cache_unm.unm
             /\ \A n \in Names : queries[n] = 0
        ELSE /\ \A s \in GeneSymbols(data) : queries[s] >= 1
             /\ cache_s2u = PickledMap(symbol_to_uniprot)
             /\ cache_unm = PickledSet(unmapped_gene_symbols)

C5_Witness ==
    /\ pc = "done"
    /\ cache_existed /\ ~clear_cache
    /\ symbol_to_uniprot # EmptyMap
    /\ unmapped_gene_symbols # {}

\* C6: a handled symbol whose own query is non-empty maps to exactly that
\* result; one whose own query is empty and whose original form differs and
\* resolves maps to the original form's full result, under its own key, and
\* is not unmapped.  Nothing but the table and the authority enters, so the
\* order of the loop does not matter.
C6_FallbackCorrect ==
    /\ (exc = "none" /\ ~(cache_existed /\ ~clear_cache)) =>
            DOMAIN symbol_to_uniprot \subseteq GeneSymbols(data)
    /\ \A s \in Names : Handled(s) =>
        LET o == OriginalGeneSymbol(data, s)
        IN /\ authority[s] # {} =>
                /\ s \in DOMAIN symbol_to_uniprot
                /\ symbol_to_uniprot[s] = authority[s]
           /\ (authority[s] = {} /\ o # s /\ authority[o] # {}) =>
                /\ s \in DOMAIN symbol_to_uniprot
                /\ symbol_to_uniprot[s] = authority[o]
                /\ s \notin unmapped_gene_symbols

C6_Witness ==
    /\ pc = "done"
    /\ \E s \in GeneSymbols(data) :
         /\ Handled(s)
         /\ authority[s] = {}
         /\ OriginalGeneSymbol(data, s) # s
         /\ s \in DOMAIN symbol_to_uniprot
         /\ Cardinality(symbol_to_uniprot[s]) = 2
    /\ Cardinality(GeneSymbols(data)) = 2

\* C7: a handled symbol whose original form is the symbol itself and whose
\* query is empty is unmapped after exactly one query; no symbol ever gets
\* more than two queries in a pass.
C7_NoFallbackLoop ==
    \A s \in Names :
        /\ queries[s] <= 2
        /\ (Handled(s) /\ authority[s] = {}
              /\ OriginalGeneSymbol(data, s) = s) =>
                /\ s \in unmapped_gene_symbols
                /\ queries[s] = 1

C7_Witness ==
    /\ pc = "done"
    /\ \E s \in GeneSymbols(data) :
         /\ Handled(s)
         /\ authority[s] = {}
         /\ OriginalGeneSymbol(data, s) = s
         /\ s \in unmapped_gene_symbols

\* -------------------------------------------------- edge emitter: properties
\* the edges written for row number i of the table
EdgesOfRow(i) == SelectSeq(emitted, LAMBDA e : e.row = i)

\* the identifiers symbol_to_uniprot holds for a symbol, none when it is no key
IdsFor(sym) ==
    IF sym \in DOMAIN symbol_to_uniprot THEN symbol_to_uniprot[sym] ELSE {}

\* C8: every row handed to get_edges yields as many edges as its gene symbol
\* has identifiers in symbol_to_uniprot, one per identifier, each from the
\* row's microRNA to 'uniprot:<identifier>'; a row whose symbol is no key
\* yields none.
C8_Completeness ==
    \A i \in 1..Len(fed) :
        LET out == EdgesOfRow(i)
            ids == IdsFor(Col(fed[i], GENE_SYMBOL))
        IN /\ Len(out) = Cardinality(ids)
           /\ { out[k].edge[3] : k \in 1..Len(out) }
                 = { "uniprot:" \o id : id \in ids }
           /\ \A k \in 1..Len(out) : out[k].edge[2] = Col(fed[i], MICRORNA)

C8_Witness ==
    /\ pc = "edges"
    /\ batches = <<>>
    /\ \E i \in 1..Len(fed) : Len(EdgesOfRow(i)) = 2
    /\ \E i \in 1..Len(fed) :
         /\ Col(fed[i], GENE_SYMBOL) \notin DOMAIN symbol_to_uniprot
         /\ Len(EdgesOfRow(i)) = 0

\* C9: the slices still to pull are non-empty and at most batch_size long;
\* once the loop over the batches has ended, ceil(N / B) slices were pulled,
\* their rows in order are the table, and the edges written are those of
\* get_edges over the whole table as one batch.
C9_BatchingPreservesOutput ==
    pc = "edges" =>
        /\ \A k \in 1..Len(batches) :
             Len(batches[k]) >= 1 /\ Len(batches[k]) <= batch_size
        /\ batches = <<>> =>
             /\ nbatches * batch_size >= Len(data)
             /\ (nbatches - 1) * batch_size < Len(data) \/ nbatches = 0
             /\ fed = data
             /\ emitted = GetEdgesOf(data, 0, symbol_to_uniprot, edge_fields)

C9_Witness ==
    /\ pc = "edges"
    /\ batches = <<>>
    /\ nbatches = 2
    /\ batch_size = 2
    /\ Len(data) = 3
    /\ Len(emitted) >= 3

\* the props of every edge written so far follow self.edge_fields
PropsFollowFields ==
    \A k \in 1..Len(emitted) :
        LET props == emitted[k].edge[5]
            row == fed[emitted[k].row]
        IN /\ {"source", "version", "licence"} \subseteq DOMAIN props
           /\ props["source"] = Col(row, SOURCE)
           /\ "rank" \in DOMAIN props <=> RANK \in edge_fields
           /\ "score" \in DOMAIN props <=> SCORE \in edge_fields
           /\ "score_class" \in DOMAIN props <=> SCORE_CLASS \in edge_fields
           /\ "score" \in DOMAIN props => props["score"] = Col(row, SCORE)

\* C10 as stated: whatever list without SCORE the caller passes, the empty
\* one included, no edge carries a 'score' key.
C10_NoScoreUnlessPassed ==
    (~passed_fields.none /\ SCORE \notin passed_fields.items) =>
        \A k \in 1..Len(emitted) : "score" \notin DOMAIN emitted[k].edge[5]

\* C10, amended: a non-empty list is taken as it is, and then an edge has
\* 'rank', 'score', 'score_class' exactly when the field is in the list, so no
\* 'score' when SCORE is left out; None and the empty list both select every
\* field, and then all three keys are present; 'source', 'version' and
\* 'licence' are always present.
C10_FieldConditional ==
    /\ PropsFollowFields
    /\ pc # "idle" =>
         IF Truthy(passed_fields)
         THEN edge_fields = passed_fields.items
         ELSE edge_fields = AllEdgeFields(auto_value)
    /\ (Truthy(passed_fields) /\ SCORE \notin passed_fields.items) =>
         \A k \in 1..Len(emitted) : "score" \notin DOMAIN emitted[k].edge[5]

C10_Witness ==
    /\ emitted # <<>>
    /\ Truthy(passed_fields)
    /\ SCORE \notin passed_fields.items
    /\ RANK \in passed_fields.items
    /\ "rank" \in DOMAIN emitted[1].edge[5]

\* the edge records of a sequence of written edges
EdgeRecords(seq) == [k \in 1..Len(seq) |-> seq[k].edge]

\* how often a record occurs in a sequence
Occurrences(seq, x) == Cardinality({ k \in 1..Len(seq) : seq[k] = x })

\* C11: the edge identifier depends on the content of the row and on nothing
\* else (two edges carry the same identifier exactly when their rows agree in
\* every field), and once a second run over the same batches, tables and
\* fields has ended it has written the same multiset of edge records as the
\* first.
C11_Idempotent ==
    /\ LET all == emitted \o again
       IN \A k, l \in 1..Len(all) :
            (data[all[k].row] = data[all[l].row])
               <=> (all[k].edge[1] = all[l].edge[1])
    /\ (pc = "rerun" /\ batches = <<>>) =>
         \A k \in 1..Len(emitted) :
            Occurrences(EdgeRecords(again), emitted[k].edge)
               = Occurrences(EdgeRecords(emitted), emitted[k].edge)
    /\ (pc = "rerun" /\ batches = <<>>) => Len(again) = Len(emitted)

C11_Witness ==
    /\ pc = "rerun"
    /\ batches = <<>>
    /\ EdgeRecords(again) # EdgeRecords(emitted)
    /\ \E k, l \in 1..Len(emitted) :
         /\ emitted[k].row # emitted[l].row
         /\ data[emitted[k].row] = data[emitted[l].row]
    /\ \E k, l \in 1..Len(emitted) :
         /\ Col(data[emitted[k].row], GENE_SYMBOL)
               = Col(data[emitted[l].row], GENE_SYMBOL)
         /\ Col(data[emitted[k].row], ORIGINAL_SOURCE_GENE_SYMBOL)
               # Col(data[emitted[l].row], ORIGINAL_SOURCE_GENE_SYMBOL)

\* C12: whatever order the calls come in, a protein node or an edge is only
\* ever yielded by an adapter whose read_data has returned, that is, from
\* tables that are there and complete.
C12_BuildThenReadOnly == emit_states \subseteq {"done"}

====
